---------------------------- MODULE Spec2Model ----------------------------
(***************************************************************************)
(* Subscription service: HTTP handlers -> UseCase (orchestrator) ->        *)
(* Storage (PostgreSQL table "subscriptions").                             *)
(*                                                                         *)
(* A time.Time is the record [sec, nsec]: Unix seconds and nanoseconds of  *)
(* the wall clock reading (the service runs in UTC; a TIMESTAMP column     *)
(* holds wall clock readings without zone).  A uuid.UUID is its sixteen   *)
(* bytes, uuid.Nil sixteen zeros.  A *time.Time is the empty set (nil) or  *)
(* a singleton.  A Go string that the code parses is a sequence of         *)
(* one-character strings; a string that is only compared is a TLA+ string. *)
(***************************************************************************)
EXTENDS Integers, Sequences, FiniteSets, TLC

VARIABLES
    rows,     \* the rows of table subscriptions
    nextId,   \* the next value of gen_random_uuid(), never reused
    last,     \* the last request served and its outcome
    query,    \* the period query under test (SpecPeriod only)
    inflight  \* the requests running concurrently (SpecConc only)

vars == <<rows, nextId, last, query, inflight>>

-----------------------------------------------------------------------------
(* Bounds of the model *)

\* at most this many rows are ever inserted
MaxSubs == 2

-----------------------------------------------------------------------------
(* package time: the calendar arithmetic behind time.Parse, Time.AddDate,  *)
(* Time.Add and time.Date                                                  *)

IsLeap(y) == (y % 4 = 0) /\ ((y % 100 # 0) \/ (y % 400 = 0))

DaysIn(y, m) ==
    IF m = 2 THEN (IF IsLeap(y) THEN 28 + 1 ELSE 28)
    ELSE IF m \in {4, 6, 9, 11} THEN 30 ELSE 31

\* leap years in 1 .. y-1
LeapsBefore(y) == ((y - 1) \div 4) - ((y - 1) \div 100) + ((y - 1) \div 400)

\* days from 1970-01-01 to the first day of year y
DaysBeforeYear(y) == 365 * (y - 1970) + LeapsBefore(y) - LeapsBefore(1970)

RECURSIVE DaysBeforeMonth(_, _)
\* days from the first day of year y to the first day of its month m
DaysBeforeMonth(y, m) ==
    IF m <= 1 THEN 0 ELSE DaysBeforeMonth(y, m - 1) + DaysIn(y, m - 1)

\* the years whose instants fit the model's integers
YearRange == 1970 .. 2037

\* time.Date(year, month, day, hour, min, sec, nsec, time.UTC): the month
\* overflows into the year, the other fields overflow linearly
Date(year, month, day, hour, min, s, ns) ==
    LET m0 == month - 1
        y  == year + (m0 \div 12)
        m  == (m0 % 12) + 1
        d  == DaysBeforeYear(y) + DaysBeforeMonth(y, m) + (day - 1)
    IN  [sec  |-> d * 86400 + hour * 3600 + min * 60 + s + (ns \div 1000000000),
         nsec |-> ns % 1000000000]

\* Time.Date() and Time.Clock(): the civil fields of an instant
Civil(t) ==
    LET days == t.sec \div 86400
        rem  == t.sec % 86400
        y    == CHOOSE yy \in YearRange :
                    DaysBeforeYear(yy) <= days /\ days < DaysBeforeYear(yy + 1)
        yd   == days - DaysBeforeYear(y)
        m    == CHOOSE mm \in 1 .. 12 :
                    DaysBeforeMonth(y, mm) <= yd
                    /\ yd < DaysBeforeMonth(y, mm) + DaysIn(y, mm)
    IN  [year |-> y, month |-> m, day |-> yd - DaysBeforeMonth(y, m) + 1,
         hour |-> rem \div 3600, min |-> (rem % 3600) \div 60, sec |-> rem % 60,
         nsec |-> t.nsec]

\* Time.AddDate(years, months, days)
AddDate(t, years, months, days) ==
    LET c == Civil(t)
    IN  Date(c.year + years, c.month + months, c.day + days,
             c.hour, c.min, c.sec, c.nsec)

\* Time.Add(d) for a duration of whole seconds
AddSeconds(t, d) == [sec |-> t.sec + d, nsec |-> t.nsec]

\* the order of instants: Time.Before / Time.Equal, and SQL <= on timestamps
TimeLE(a, b) == a.sec < b.sec \/ (a.sec = b.sec /\ a.nsec <= b.nsec)

Digits == <<"0", "1", "2", "3", "4", "5", "6", "7", "8", "9">>

IsDigit(s, i) == i <= Len(s) /\ \E k \in 1 .. 10 : Digits[k] = s[i]

DigitVal(c) == (CHOOSE k \in 1 .. 10 : Digits[k] = c) - 1

\* mutant: the month is not range-checked and the literal is not compared
ParseMonthYear_Lenient(s) ==
    IF Len(s) = 7 /\ \A i \in {1, 2, 4, 5, 6, 7} : IsDigit(s, i)
    THEN [ok |-> TRUE,
          t |-> Date(DigitVal(s[4]) * 1000 + DigitVal(s[5]) * 100
                     + DigitVal(s[6]) * 10 + DigitVal(s[7]),
                     DigitVal(s[1]) * 10 + DigitVal(s[2]), 1, 0, 0, 0, 0)]
    ELSE [ok |-> FALSE, t |-> [sec |-> 0, nsec |-> 0]]

\* time.Parse("01-2006", s): a two-digit month in 1..12 (getnum, fixed), the
\* literal "-", a four-digit year (stdLongYear), no text left over; day 1,
\* 00:00:00 UTC.  [ok, t]
ParseMonthYear(s) ==
    LET bad == [ok |-> FALSE, t |-> [sec |-> 0, nsec |-> 0]]
    IN  IF ~(IsDigit(s, 1) /\ IsDigit(s, 2)) THEN bad
        ELSE LET month == DigitVal(s[1]) * 10 + DigitVal(s[2])
             IN  IF Len(s) < 3 \/ s[3] # "-" THEN bad
                 ELSE IF Len(s) < 7 \/ ~IsDigit(s, 4) THEN bad
                 ELSE IF ~(IsDigit(s, 5) /\ IsDigit(s, 6) /\ IsDigit(s, 7)) THEN bad
                 ELSE IF month <= 0 \/ 12 < month THEN bad
                 ELSE IF Len(s) # 7 THEN bad
                 ELSE LET year == DigitVal(s[4]) * 1000 + DigitVal(s[5]) * 100
                                  + DigitVal(s[6]) * 10 + DigitVal(s[7])
                      IN  [ok |-> TRUE, t |-> Date(year, month, 1, 0, 0, 0, 0)]

-----------------------------------------------------------------------------
(* package domain, and the values of the Go types *)

\* uuid.Nil, the zero value of UserSub.ID: a uuid.UUID is a [16]byte
NilUUID == [i \in 1 .. 16 |-> 0]

\* the uuid whose bytes spell the number n, most significant byte first
UUID(n) == [i \in 1 .. 16 |-> IF i < 13 THEN 0 ELSE (n \div (256 ^ (16 - i))) % 256]

\* a nil *time.Time / a pointer to t
NoTime == {}
SomeTime(t) == {t}

\* domain.UserSub
UserSub(id, name, price, user, started, ended) ==
    [ID |-> id, ServiceName |-> name, ServicePrice |-> price, UserID |-> user,
     StartedAt |-> started, EndedAt |-> ended]

\* the error values the code produces: nil, errors.New("price cannot be
\* negative"), a *time.ParseError, and fmt.Errorf("%s: %w", op, err) around a
\* failure of the pool or around pgx.ErrNoRows
ErrNil == [kind |-> "nil", op |-> ""]
ErrNegativePrice == [kind |-> "price cannot be negative", op |-> ""]
ErrParse == [kind |-> "time.ParseError", op |-> ""]
ErrExec(op) == [kind |-> "db", op |-> op]
ErrNoRows(op) == [kind |-> "pgx.ErrNoRows", op |-> op]

-----------------------------------------------------------------------------
(* package storage: one SQL statement per method, against db = [rows, nextId]. *)
(* dbOk = FALSE is DB.Exec / DB.Query / Scan returning an error (connection    *)
(* lost, context cancelled, pool exhausted).  A read that fails returns the    *)
(* error and no value.  A write runs as one autocommit statement, so it takes  *)
(* effect in full or not at all, but the error does not tell which: the        *)
(* statement may have failed before it ran, or have committed with its answer  *)
(* lost on the way back (connection dropped, context cancelled after the       *)
(* commit).  committed says which of the two happened to a failing write; a    *)
(* write that returns no error has committed.                                  *)

\* a Go time.Time as a TIMESTAMP value: microsecond resolution
Timestamp(t) == [sec |-> t.sec, nsec |-> t.nsec - (t.nsec % 1000)]

\* INSERT INTO subscriptions (service_name, sub_price, user_id, started_at,
\* ended_at): the id column takes its default, gen_random_uuid()
Storage_CreateSub(db, userSub, dbOk, committed) ==
    [db  |-> IF dbOk \/ committed
             THEN [rows   |-> db.rows \cup
                              {UserSub(UUID(db.nextId), userSub.ServiceName,
                                       userSub.ServicePrice, userSub.UserID,
                                       Timestamp(userSub.StartedAt),
                                       {Timestamp(t) : t \in userSub.EndedAt})},
                   nextId |-> db.nextId + 1]
             ELSE db,
     err |-> IF dbOk THEN ErrNil ELSE ErrExec("storage.storage.CreateSub")]

\* mutant: the row is matched by id alone
Storage_UpdateSub_ByIdOnly(db, userSub, dbOk, committed) ==
    [db  |-> IF dbOk \/ committed
             THEN [db EXCEPT !.rows =
                      {IF r.ID = userSub.ID
                       THEN [r EXCEPT !.ServiceName = userSub.ServiceName,
                                      !.ServicePrice = userSub.ServicePrice,
                                      !.EndedAt = {Timestamp(t) : t \in userSub.EndedAt}]
                       ELSE r : r \in db.rows}]
             ELSE db,
     err |-> IF dbOk THEN ErrNil ELSE ErrExec("storage.storage.UpdateSub")]

\* UPDATE subscriptions SET service_name, sub_price, ended_at
\* WHERE id = $ AND user_id = $
Storage_UpdateSub(db, userSub, dbOk, committed) ==
    [db  |-> IF dbOk \/ committed
             THEN [db EXCEPT !.rows =
                      {IF r.ID = userSub.ID /\ r.UserID = userSub.UserID
                       THEN [r EXCEPT !.ServiceName = userSub.ServiceName,
                                      !.ServicePrice = userSub.ServicePrice,
                                      !.EndedAt = {Timestamp(t) : t \in userSub.EndedAt}]
                       ELSE r : r \in db.rows}]
             ELSE db,
     err |-> IF dbOk THEN ErrNil ELSE ErrExec("storage.storage.UpdateSub")]

\* mutant: the row is matched by id alone
Storage_DeleteSub_ByIdOnly(db, subID, userID, dbOk, committed) ==
    [db  |-> IF dbOk \/ committed
             THEN [db EXCEPT !.rows = {r \in db.rows : r.ID # subID}]
             ELSE db,
     err |-> IF dbOk THEN ErrNil ELSE ErrExec("storage.storage.DeleteSub")]

\* DELETE FROM subscriptions WHERE id = $ AND user_id = $
Storage_DeleteSub(db, subID, userID, dbOk, committed) ==
    [db  |-> IF dbOk \/ committed
             THEN [db EXCEPT !.rows =
                      {r \in db.rows : ~(r.ID = subID /\ r.UserID = userID)}]
             ELSE db,
     err |-> IF dbOk THEN ErrNil ELSE ErrExec("storage.storage.DeleteSub")]

\* rows.Scan into a fresh domain.UserSub: the id column is not selected, so
\* ID keeps its zero value
Scanned(r) == [r EXCEPT !.ID = NilUUID]

\* the orders of the rows of S
Orderings(S) ==
    {f \in [1 .. Cardinality(S) -> S] : \A r \in S : \E i \in DOMAIN f : f[i] = r}

\* the rows of S in the order the store returns them: a SELECT without ORDER BY
\* returns them in heap order, heap[id] being the place of row id in the heap
InHeapOrder(S, heap) ==
    CHOOSE f \in Orderings(S) :
        \A i, j \in DOMAIN f : i < j => heap[f[i].ID] < heap[f[j].ID]

\* SELECT service_name, sub_price, user_id, started_at, ended_at
\* FROM subscriptions
Storage_GetSubs(db, heap, dbOk) ==
    IF ~dbOk THEN [err |-> ErrExec("storage.storage.GetSubs"), val |-> <<>>]
    ELSE LET order == InHeapOrder(db.rows, heap)
         IN  [err |-> ErrNil, val |-> [i \in DOMAIN order |-> Scanned(order[i])]]

\* ... WHERE user_id = $
Storage_GetUserSubs(db, userID, heap, dbOk) ==
    IF ~dbOk THEN [err |-> ErrExec("storage.storage.GetSubs"), val |-> <<>>]
    ELSE LET order == InHeapOrder({r \in db.rows : r.UserID = userID}, heap)
         IN  [err |-> ErrNil, val |-> [i \in DOMAIN order |-> Scanned(order[i])]]

\* mutant: the error of a read that found no row is not kept in the chain
Storage_GetUserSub_NoRowsAsFailure(db, subID, dbOk) ==
    IF ~dbOk THEN [err |-> ErrExec("storage.storage.GetUserSub"), val |-> {}]
    ELSE LET hit == {r \in db.rows : r.ID = subID}
         IN  IF hit = {}
             THEN [err |-> ErrExec("storage.storage.GetUserSub"), val |-> {}]
             ELSE [err |-> ErrNil, val |-> {Scanned(r) : r \in hit}]

\* ... WHERE id = $, QueryRow(...).Scan: the nil pointer and the wrapped
\* pgx.ErrNoRows when no row has the id
Storage_GetUserSub(db, subID, dbOk) ==
    IF ~dbOk THEN [err |-> ErrExec("storage.storage.GetUserSub"), val |-> {}]
    ELSE LET hit == {r \in db.rows : r.ID = subID}
         IN  IF hit = {}
             THEN [err |-> ErrNoRows("storage.storage.GetUserSub"), val |-> {}]
             ELSE [err |-> ErrNil, val |-> {Scanned(r) : r \in hit}]

RECURSIVE SumPrice(_)
\* SUM(sub_price) over a set of rows
SumPrice(S) ==
    IF S = {} THEN 0
    ELSE LET r == CHOOSE x \in S : TRUE
         IN  r.ServicePrice + SumPrice(S \ {r})

\* mutant: a row counts when it is active in the period
Storage_GetTotalCost_ActiveInPeriod(db, userID, serviceName, from, to, dbOk) ==
    IF ~dbOk THEN [err |-> ErrExec("storage.storage.GetTotalCost"), val |-> 0]
    ELSE [err |-> ErrNil,
          val |-> SumPrice({r \in db.rows :
                               /\ r.UserID = userID
                               /\ r.ServiceName = serviceName
                               /\ TimeLE(r.StartedAt, Timestamp(to))
                               /\ \A e \in r.EndedAt : TimeLE(Timestamp(from), e)})]

\* mutant: a row within either bound is counted
Storage_GetTotalCost_EitherBound(db, userID, serviceName, from, to, dbOk) ==
    IF ~dbOk THEN [err |-> ErrExec("storage.storage.GetTotalCost"), val |-> 0]
    ELSE [err |-> ErrNil,
          val |-> SumPrice({r \in db.rows :
                               /\ r.UserID = userID
                               /\ r.ServiceName = serviceName
                               /\ \/ TimeLE(Timestamp(from), r.StartedAt)
                                  \/ TimeLE(r.StartedAt, Timestamp(to))})]

\* SELECT COALESCE(SUM(sub_price), 0) FROM subscriptions WHERE user_id = $
\* AND service_name = $ AND started_at >= $ AND started_at <= $
Storage_GetTotalCost(db, userID, serviceName, from, to, dbOk) ==
    IF ~dbOk THEN [err |-> ErrExec("storage.storage.GetTotalCost"), val |-> 0]
    ELSE [err |-> ErrNil,
          val |-> SumPrice({r \in db.rows :
                               /\ r.UserID = userID
                               /\ r.ServiceName = serviceName
                               /\ TimeLE(Timestamp(from), r.StartedAt)
                               /\ TimeLE(r.StartedAt, Timestamp(to))})]

-----------------------------------------------------------------------------
(* package usecase: the orchestrator.  Each method returns the store after   *)
(* it, its error, its value and the calls it made on the Storage interface.  *)

\* mutant: the bound is off by one
validatePrice_OffByOne(price) == IF price < -1 THEN ErrNegativePrice ELSE ErrNil

validatePrice(price) == IF price < 0 THEN ErrNegativePrice ELSE ErrNil

UC_CreateSub(db, userSub, dbOk, committed) ==
    IF validatePrice(userSub.ServicePrice) # ErrNil
    THEN [db |-> db, err |-> validatePrice(userSub.ServicePrice), val |-> <<>>,
          calls |-> <<>>]
    ELSE LET r == Storage_CreateSub(db, userSub, dbOk, committed)
         IN  [db |-> r.db, err |-> r.err, val |-> <<>>,
              calls |-> <<[fn |-> "CreateSub", userSub |-> userSub]>>]

\* mutant: update without the price validation
UC_UpdateSub_NoValidation(db, userSub, dbOk, committed) ==
    LET r == Storage_UpdateSub(db, userSub, dbOk, committed)
    IN  [db |-> r.db, err |-> r.err, val |-> <<>>,
         calls |-> <<[fn |-> "UpdateSub", userSub |-> userSub]>>]

UC_UpdateSub(db, userSub, dbOk, committed) ==
    IF validatePrice(userSub.ServicePrice) # ErrNil
    THEN [db |-> db, err |-> validatePrice(userSub.ServicePrice), val |-> <<>>,
          calls |-> <<>>]
    ELSE LET r == Storage_UpdateSub(db, userSub, dbOk, committed)
         IN  [db |-> r.db, err |-> r.err, val |-> <<>>,
              calls |-> <<[fn |-> "UpdateSub", userSub |-> userSub]>>]

\* mutant: a failed delete is tried once more
UC_DeleteSub_Retry(db, subID, userID, dbOk, committed) ==
    LET r == Storage_DeleteSub(db, subID, userID, dbOk, committed)
        again == Storage_DeleteSub(r.db, subID, userID, TRUE, TRUE)
        call == [fn |-> "DeleteSub", subID |-> subID, userID |-> userID]
    IN  IF r.err = ErrNil
        THEN [db |-> r.db, err |-> r.err, val |-> <<>>, calls |-> <<call>>]
        ELSE [db |-> again.db, err |-> again.err, val |-> <<>>,
              calls |-> <<call, call>>]

UC_DeleteSub(db, subID, userID, dbOk, committed) ==
    LET r == Storage_DeleteSub(db, subID, userID, dbOk, committed)
    IN  [db |-> r.db, err |-> r.err, val |-> <<>>,
         calls |-> <<[fn |-> "DeleteSub", subID |-> subID, userID |-> userID]>>]

UC_GetSubs(db, heap, dbOk) ==
    LET r == Storage_GetSubs(db, heap, dbOk)
    IN  [db |-> db, err |-> r.err, val |-> r.val, calls |-> <<[fn |-> "GetSubs"]>>]

UC_GetUserSub(db, subID, dbOk) ==
    LET r == Storage_GetUserSub(db, subID, dbOk)
    IN  [db |-> db, err |-> r.err, val |-> r.val,
         calls |-> <<[fn |-> "GetUserSub", subID |-> subID]>>]

UC_GetUserSubs(db, userID, heap, dbOk) ==
    LET r == Storage_GetUserSubs(db, userID, heap, dbOk)
    IN  [db |-> db, err |-> r.err, val |-> r.val,
         calls |-> <<[fn |-> "GetUserSubs", userID |-> userID]>>]

\* mutant: a month taken to be thirty days
PeriodEnd_ThirtyDays(toRaw) == AddSeconds(AddDate(toRaw, 0, 0, 30), -1)

\* toRaw.AddDate(0, 1, 0).Add(-time.Second)
PeriodEnd(toRaw) == AddSeconds(AddDate(toRaw, 0, 1, 0), -1)

UC_GetTotalCost(db, userID, serviceName, fromStr, toStr, dbOk) ==
    LET from  == ParseMonthYear(fromStr)
        toRaw == ParseMonthYear(toStr)
    IN  IF ~from.ok THEN [db |-> db, err |-> ErrParse, val |-> 0, calls |-> <<>>]
        ELSE IF ~toRaw.ok THEN [db |-> db, err |-> ErrParse, val |-> 0, calls |-> <<>>]
        ELSE LET to == PeriodEnd(toRaw.t)
                 r  == Storage_GetTotalCost(db, userID, serviceName, from.t, to, dbOk)
             IN  [db |-> db, err |-> r.err,
                  val |-> IF r.err # ErrNil THEN 0 ELSE r.val,
                  calls |-> <<[fn |-> "GetTotalCost", userID |-> userID,
                               serviceName |-> serviceName,
                               from |-> from.t, to |-> to]>>]

-----------------------------------------------------------------------------
(* package handlers: the HTTP transport.  Each handler returns the store     *)
(* after it, the response status and value, the orchestrator methods it      *)
(* called (uc), the orchestrator's error and the store calls made.           *)

HexDigits ==
    <<"0", "1", "2", "3", "4", "5", "6", "7", "8", "9", "a", "b", "c", "d", "e", "f">>

UpperHex == <<"A", "B", "C", "D", "E", "F">>

\* UUID.String(): xxxxxxxx-xxxx-xxxx-xxxx-xxxxxxxxxxxx in lower-case hex, the
\* text a client puts in a path or query
UUIDText(id) ==
    LET hex(i) == <<HexDigits[(id[i] \div 16) + 1], HexDigits[(id[i] % 16) + 1]>>
    IN  hex(1) \o hex(2) \o hex(3) \o hex(4) \o <<"-">> \o hex(5) \o hex(6)
        \o <<"-">> \o hex(7) \o hex(8) \o <<"-">> \o hex(9) \o hex(10)
        \o <<"-">> \o hex(11) \o hex(12) \o hex(13) \o hex(14) \o hex(15) \o hex(16)

\* xvalues[c]: the value of the hex digit c, of either case, 255 for any
\* other byte
XValue(c) ==
    IF \E k \in 1 .. 16 : HexDigits[k] = c
    THEN (CHOOSE k \in 1 .. 16 : HexDigits[k] = c) - 1
    ELSE IF \E k \in 1 .. 6 : UpperHex[k] = c
    THEN (CHOOSE k \in 1 .. 6 : UpperHex[k] = c) + 9
    ELSE 255

\* xtob(x1, x2): the byte (b1 << 4) | b2 and whether both are hex digits
Xtob(x1, x2) ==
    LET b1 == XValue(x1)
        b2 == XValue(x2)
    IN  [b  |-> IF b2 = 255 THEN 255 ELSE ((b1 * 16) % 256) + b2,
         ok |-> b1 # 255 /\ b2 # 255]

\* where the sixteen hex pairs of xxxxxxxx-xxxx-xxxx-xxxx-xxxxxxxxxxxx begin
\* (Go indexes from 0)
PairOffsets == <<0, 2, 4, 6, 9, 11, 14, 16, 19, 21, 24, 26, 28, 30, 32, 34>>

\* the letters of "urn:uuid:" in upper case, folded to lower case
Folded(c) ==
    CASE c = "U" -> "u" [] c = "R" -> "r" [] c = "N" -> "n" [] c = "I" -> "i"
      [] c = "D" -> "d" [] OTHER -> c

\* strings.EqualFold(s, "urn:uuid:") for a text of nine bytes
IsURNPrefix(s) ==
    [i \in 1 .. 9 |-> Folded(s[i])] = <<"u", "r", "n", ":", "u", "u", "i", "d", ":">>

\* the end of uuid.Parse, on a text s of at least 36 bytes: the four dashes,
\* then the pairs in turn, stopping at the first that is not hex
ParseDashed(s) ==
    IF s[9] # "-" \/ s[14] # "-" \/ s[19] # "-" \/ s[24] # "-"
    THEN [ok |-> FALSE, id |-> NilUUID]
    ELSE LET pair(i) == Xtob(s[PairOffsets[i] + 1], s[PairOffsets[i] + 2])
             bad == {i \in 1 .. 16 : ~pair(i).ok}
         IN  [ok |-> bad = {},
              id |-> [i \in 1 .. 16 |->
                         IF \E j \in bad : j <= i THEN 0 ELSE pair(i).b]]

\* uuid.Parse(s): [ok, id], ok = FALSE for a non-nil error.  By len(s):
\* 36 the dashed form, 45 the same after "urn:uuid:" in any case, 38 the same
\* after one byte and before one more (braces, not examined), 32 hex pairs
\* alone; any other length is an error
ParseUUID(s) ==
    CASE Len(s) = 36 -> ParseDashed(s)
      [] Len(s) = 45 ->
            IF ~IsURNPrefix(SubSeq(s, 1, 9)) THEN [ok |-> FALSE, id |-> NilUUID]
            ELSE ParseDashed(SubSeq(s, 10, 45))
      [] Len(s) = 38 -> ParseDashed(SubSeq(s, 2, 38))
      [] Len(s) = 32 ->
            LET pair(i) == Xtob(s[2 * i - 1], s[2 * i])
                bad == {i \in 1 .. 16 : ~pair(i).ok}
            IN  [ok |-> bad = {},
                 id |-> [i \in 1 .. 16 |->
                            IF \E j \in bad : j < i THEN 0 ELSE pair(i).b]]
      [] OTHER -> [ok |-> FALSE, id |-> NilUUID]

\* a handler's answer when it returns before calling the orchestrator
Rejected(db, status) ==
    [db |-> db, status |-> status, val |-> <<>>, uc |-> <<>>, err |-> ErrNil,
     calls |-> <<>>]

\* a handler's answer after the orchestrator returned r
Answered(r, method, okStatus, okVal) ==
    [db |-> r.db, status |-> IF r.err # ErrNil THEN 500 ELSE okStatus,
     val |-> IF r.err # ErrNil THEN <<>> ELSE okVal,
     uc |-> <<method>>, err |-> r.err, calls |-> r.calls]

\* mutant: the started_at of the body is kept
H_CreateSub_KeepsBodyStartedAt(db, body, now, dbOk, committed) ==
    IF ~body.valid THEN Rejected(db, 400)
    ELSE Answered(UC_CreateSub(db, body.sub, dbOk, committed), "CreateSub", 201, <<>>)

\* body = [valid, sub]: render.DecodeJSON fails on an invalid body
H_CreateSub(db, body, now, dbOk, committed) ==
    IF ~body.valid THEN Rejected(db, 400)
    ELSE LET req == [body.sub EXCEPT !.StartedAt = now]
         IN  Answered(UC_CreateSub(db, req, dbOk, committed), "CreateSub", 201, <<>>)

H_UpdateSub(db, body, subIDStr, dbOk, committed) ==
    IF ~body.valid THEN Rejected(db, 400)
    ELSE IF ~ParseUUID(subIDStr).ok THEN Rejected(db, 400)
    ELSE LET req == [body.sub EXCEPT !.ID = ParseUUID(subIDStr).id]
         IN  Answered(UC_UpdateSub(db, req, dbOk, committed), "UpdateSub", 201, <<>>)

\* on success render.Status(r, 204) only leaves a hint in the request context
\* and nothing is rendered: net/http answers 200
H_DeleteSub(db, subIDStr, userIDStr, dbOk, committed) ==
    IF ~ParseUUID(subIDStr).ok THEN Rejected(db, 400)
    ELSE IF ~ParseUUID(userIDStr).ok THEN Rejected(db, 400)
    ELSE Answered(UC_DeleteSub(db, ParseUUID(subIDStr).id, ParseUUID(userIDStr).id, dbOk,
                          committed),
                  "DeleteSub", 200, <<>>)

H_ListSubs(db, userIDStr, heap, dbOk) ==
    IF userIDStr # <<>>
    THEN IF ~ParseUUID(userIDStr).ok THEN Rejected(db, 400)
         ELSE LET r == UC_GetUserSubs(db, ParseUUID(userIDStr).id, heap, dbOk)
              IN  Answered(r, "GetUserSubs", 200, r.val)
    ELSE LET r == UC_GetSubs(db, heap, dbOk)
         IN  Answered(r, "GetSubs", 200, r.val)

H_GetTotalCost(db, userIDStr, serviceName, from, to, dbOk) ==
    IF userIDStr = <<>> \/ serviceName = "" \/ from = <<>> \/ to = <<>>
    THEN Rejected(db, 400)
    ELSE IF ~ParseUUID(userIDStr).ok THEN Rejected(db, 400)
    ELSE LET r == UC_GetTotalCost(db, ParseUUID(userIDStr).id, serviceName, from, to, dbOk)
         IN  Answered(r, "GetTotalCost", 200, r.val)

H_GetUserSub(db, subIDStr, dbOk) ==
    IF ~ParseUUID(subIDStr).ok THEN Rejected(db, 400)
    ELSE LET r == UC_GetUserSub(db, ParseUUID(subIDStr).id, dbOk)
         IN  Answered(r, "GetUserSub", 200, r.val)

-----------------------------------------------------------------------------
(* The requests the model issues *)

Users == {UUID(1), UUID(2)}
Services == {"Netflix", "Spotify"}
Prices == {-1, 0, 990}

\* the id a caller puts in a create request: one of its own choosing, which
\* the store never generates
CallerIDs == {UUID(9)}

\* ids the store may have assigned
SubIDs == {UUID(n) : n \in 1 .. MaxSubs}

\* readings of time.Now(): an ordinary instant, and one in the last second of
\* a month
ClockTimes == {Date(2025, 1, 15, 12, 0, 0, 123456789),
               Date(2025, 1, 31, 23, 59, 59, 500000000)}

\* the started_at of a JSON body
BodyStartedAt == Date(2025, 7, 1, 0, 0, 0, 0)

EndedAts == {NoTime, SomeTime(Date(2026, 7, 1, 0, 0, 0, 0))}

\* the values a caller gives the orchestrator
SubInputs(ids, times, ends) ==
    {UserSub(id, name, price, user, started, ended) :
        id \in ids, name \in Services, price \in Prices, user \in Users,
        started \in times, ended \in ends}

\* request bodies: the JSON of a UserSub without ended_at, or a body
\* DecodeJSON rejects
Bodies(ids) ==
    {[valid |-> TRUE, sub |-> sub] : sub \in SubInputs(ids, {BodyStartedAt}, {NoTime})}
    \cup {[valid |-> FALSE,
           sub |-> UserSub(NilUUID, "", 0, NilUUID, BodyStartedAt, NoTime)]}

\* "MM-YYYY" for month m of year y
MonthYear(m, y) ==
    <<Digits[(m \div 10) + 1], Digits[(m % 10) + 1], "-",
      Digits[(y \div 1000) + 1], Digits[((y \div 100) % 10) + 1],
      Digits[((y \div 10) % 10) + 1], Digits[(y % 10) + 1]>>

\* the period strings of the requests of Spec: "01-2025", "02-2025"
Periods == {MonthYear(1, 2025), MonthYear(2, 2025)}

\* a from string that is no "MM-YYYY": "2025-01"
BadPeriod == <<"2", "0", "2", "5", "-", "0", "1">>

\* "not-a-uuid"
NotAUUID == <<"n", "o", "t", "-", "a", "-", "u", "u", "i", "d">>

\* the other texts uuid.Parse reads as id: after "urn:uuid:", in braces, and
\* the 32 hex digits without dashes
URNText(id) == <<"u", "r", "n", ":", "u", "u", "i", "d", ":">> \o UUIDText(id)
BracedText(id) == <<"{">> \o UUIDText(id) \o <<"}">>
RawText(id) == SelectSeq(UUIDText(id), LAMBDA c : c # "-")

\* the texts a client sends for one of ids: the canonical text of each, and
\* one that is no uuid
PlainIDTexts(ids) == {UUIDText(id) : id \in ids} \cup {NotAUUID}

\* the same, and the other texts of one of ids
IDTexts(ids) ==
    PlainIDTexts(ids)
    \cup UNION {{URNText(id), BracedText(id), RawText(id)} :
                   id \in {CHOOSE id \in ids : TRUE}}

\* the places the rows may have in the heap
Heaps ==
    {h \in [SubIDs -> 1 .. MaxSubs] : \A i, j \in SubIDs : i # j => h[i] # h[j]}

Idle ==
    [layer |-> "", op |-> "idle", req |-> <<>>, status |-> 0, val |-> <<>>,
     uc |-> <<>>, err |-> ErrNil, calls |-> <<>>, before |-> {}]

NoQuery ==
    [userID |-> <<>>, serviceName |-> "", from |-> <<>>, to |-> <<>>, dbOk |-> TRUE]

NoRequests == <<>>

DB == [rows |-> rows, nextId |-> nextId]

-----------------------------------------------------------------------------
(* Actions: one request served from start to end.  A request is served when  *)
(* no other is (last is Idle), Reply ends it.                                *)

\* a call of an orchestrator method by some caller, r its outcome
ServeUC(op, req, r) ==
    /\ rows' = r.db.rows
    /\ nextId' = r.db.nextId
    /\ last' = [layer |-> "usecase", op |-> op, req |-> req, status |-> 0,
                val |-> r.val, uc |-> <<op>>, err |-> r.err, calls |-> r.calls,
                before |-> rows]
    /\ UNCHANGED <<query, inflight>>

\* an HTTP request, r the handler's outcome
ServeHTTP(op, req, r) ==
    /\ rows' = r.db.rows
    /\ nextId' = r.db.nextId
    /\ last' = [layer |-> "http", op |-> op, req |-> req, status |-> r.status,
                val |-> r.val, uc |-> r.uc, err |-> r.err, calls |-> r.calls,
                before |-> rows]
    /\ UNCHANGED <<query, inflight>>

\* what a write that returns dbOk may have done to the rows: a write that
\* returns no error has committed, a write that returns an error may have
Committed(dbOk) == IF dbOk THEN {TRUE} ELSE BOOLEAN

\* the outcomes of a write
WriteOutcomes ==
    {o \in [dbOk : BOOLEAN, committed : BOOLEAN] : o.committed \in Committed(o.dbOk)}

UCCreateSub ==
    /\ last.op = "idle"
    /\ \E userSub \in SubInputs(CallerIDs, ClockTimes, EndedAts), dbOk \in BOOLEAN :
        \E committed \in Committed(dbOk) :
            /\ UC_CreateSub(DB, userSub, dbOk, committed).db.nextId <= MaxSubs + 1
            /\ ServeUC("CreateSub",
                       [userSub |-> userSub, dbOk |-> dbOk, committed |-> committed],
                       UC_CreateSub(DB, userSub, dbOk, committed))

UCUpdateSub ==
    /\ last.op = "idle"
    /\ \E userSub \in SubInputs(SubIDs, {BodyStartedAt}, EndedAts), dbOk \in BOOLEAN :
        \E committed \in Committed(dbOk) :
            ServeUC("UpdateSub",
                    [userSub |-> userSub, dbOk |-> dbOk, committed |-> committed],
                    UC_UpdateSub(DB, userSub, dbOk, committed))

UCDeleteSub ==
    /\ last.op = "idle"
    /\ \E subID \in SubIDs, userID \in Users, dbOk \in BOOLEAN :
        \E committed \in Committed(dbOk) :
            ServeUC("DeleteSub",
                    [subID |-> subID, userID |-> userID, dbOk |-> dbOk,
                     committed |-> committed],
                    UC_DeleteSub(DB, subID, userID, dbOk, committed))

UCGetSubs ==
    /\ last.op = "idle"
    /\ \E heap \in Heaps, dbOk \in BOOLEAN :
        ServeUC("GetSubs", [heap |-> heap, dbOk |-> dbOk], UC_GetSubs(DB, heap, dbOk))

UCGetUserSub ==
    /\ last.op = "idle"
    /\ \E subID \in SubIDs, dbOk \in BOOLEAN :
        ServeUC("GetUserSub", [subID |-> subID, dbOk |-> dbOk],
                UC_GetUserSub(DB, subID, dbOk))

UCGetUserSubs ==
    /\ last.op = "idle"
    /\ \E userID \in Users, heap \in Heaps, dbOk \in BOOLEAN :
        ServeUC("GetUserSubs", [userID |-> userID, heap |-> heap, dbOk |-> dbOk],
                UC_GetUserSubs(DB, userID, heap, dbOk))

UCGetTotalCost(userID, serviceName, from, to, dbOk) ==
    /\ last.op = "idle"
    /\ ServeUC("GetTotalCost",
            [userID |-> userID, serviceName |-> serviceName, from |-> from,
             to |-> to, dbOk |-> dbOk],
            UC_GetTotalCost(DB, userID, serviceName, from, to, dbOk))

HCreateSub ==
    /\ last.op = "idle"
    /\ \E body \in Bodies(CallerIDs), now \in ClockTimes, dbOk \in BOOLEAN :
        \E committed \in Committed(dbOk) :
            /\ H_CreateSub(DB, body, now, dbOk, committed).db.nextId <= MaxSubs + 1
            /\ ServeHTTP("CreateSub",
                         [body |-> body, now |-> now, dbOk |-> dbOk,
                          committed |-> committed],
                         H_CreateSub(DB, body, now, dbOk, committed))

HUpdateSub ==
    /\ last.op = "idle"
    /\ \E body \in Bodies({NilUUID}), id \in PlainIDTexts(SubIDs), dbOk \in BOOLEAN :
        \E committed \in Committed(dbOk) :
            ServeHTTP("UpdateSub",
                      [body |-> body, id |-> id, dbOk |-> dbOk, committed |-> committed],
                      H_UpdateSub(DB, body, id, dbOk, committed))

HDeleteSub ==
    /\ last.op = "idle"
    /\ \E id \in IDTexts(SubIDs), user \in PlainIDTexts(Users), dbOk \in BOOLEAN :
        \E committed \in Committed(dbOk) :
            ServeHTTP("DeleteSub",
                      [id |-> id, userID |-> user, dbOk |-> dbOk,
                       committed |-> committed],
                      H_DeleteSub(DB, id, user, dbOk, committed))

HListSubs ==
    /\ last.op = "idle"
    /\ \E user \in IDTexts(Users) \cup {<<>>}, heap \in Heaps, dbOk \in BOOLEAN :
        ServeHTTP("ListSubs", [userID |-> user, heap |-> heap, dbOk |-> dbOk],
                  H_ListSubs(DB, user, heap, dbOk))

HGetTotalCost(userID, serviceName, from, to, dbOk) ==
    /\ last.op = "idle"
    /\ ServeHTTP("GetTotalCost",
              [userID |-> userID, serviceName |-> serviceName, from |-> from,
               to |-> to, dbOk |-> dbOk],
              H_GetTotalCost(DB, userID, serviceName, from, to, dbOk))

HGetUserSub ==
    /\ last.op = "idle"
    /\ \E id \in IDTexts(SubIDs), dbOk \in BOOLEAN :
        ServeHTTP("GetUserSub", [id |-> id, dbOk |-> dbOk], H_GetUserSub(DB, id, dbOk))

\* the caller has its answer
Reply ==
    /\ last.op # "idle"
    /\ last' = Idle
    /\ UNCHANGED <<rows, nextId, query, inflight>>

UCTotal ==
    /\ last.op = "idle"
    /\ \E userID \in Users, serviceName \in Services,
          from \in Periods \cup {BadPeriod}, to \in Periods, dbOk \in BOOLEAN :
        UCGetTotalCost(userID, serviceName, from, to, dbOk)

HTotal ==
    /\ last.op = "idle"
    /\ \E userID \in Users, serviceName \in Services,
          from \in Periods \cup {BadPeriod}, to \in Periods, dbOk \in BOOLEAN :
        HGetTotalCost(UUIDText(userID), serviceName, from, to, dbOk)

Init ==
    /\ rows = {}
    /\ nextId = 1
    /\ last = Idle
    /\ query = NoQuery
    /\ inflight = NoRequests

Next ==
    \/ UCCreateSub
    \/ UCUpdateSub
    \/ UCDeleteSub
    \/ UCGetSubs
    \/ UCGetUserSub
    \/ UCGetUserSubs
    \/ UCTotal
    \/ HCreateSub
    \/ HUpdateSub
    \/ HDeleteSub
    \/ HListSubs
    \/ HTotal
    \/ HGetUserSub
    \/ Reply

Spec == Init /\ [][Next]_vars

-----------------------------------------------------------------------------
(* The period query on its own: Init draws one query (both period strings   *)
(* over every month of a leap and a common year, and malformed ones) and a  *)
(* store holding rows at the ends of months; the orchestrator, or the       *)
(* handler, serves it.                                                      *)

PeriodYears == {2024, 2025}

WellFormedPeriods == {MonthYear(m, y) : m \in 1 .. 12, y \in PeriodYears}

\* "", "2025-01", "13-2025", "00-2025", "1-2025", "01/2025", "01-20255", "01-202"
MalformedPeriods ==
    {<<>>,
     <<"2", "0", "2", "5", "-", "0", "1">>,
     <<"1", "3", "-", "2", "0", "2", "5">>,
     <<"0", "0", "-", "2", "0", "2", "5">>,
     <<"1", "-", "2", "0", "2", "5">>,
     <<"0", "1", "/", "2", "0", "2", "5">>,
     <<"0", "1", "-", "2", "0", "2", "5", "5">>,
     <<"0", "1", "-", "2", "0", "2">>}

\* user_id of the query: absent, not a uuid, or the uuid of user 1
PeriodUserIDs == {<<>>, NotAUUID, UUIDText(UUID(1))}

PeriodQueries ==
    [userID : PeriodUserIDs, serviceName : {"", "Netflix"},
     from : WellFormedPeriods \cup MalformedPeriods,
     to : WellFormedPeriods \cup MalformedPeriods, dbOk : BOOLEAN]

\* rows of user 1 the orchestrator has inserted: at the first and the last
\* second of months, in the last second of a month, and in the middle of one
PeriodRows ==
    {UserSub(UUID(1), "Netflix", 990, UUID(1),
            Date(2025, 1, 15, 12, 0, 0, 123456000), NoTime),
     UserSub(UUID(2), "Netflix", 100, UUID(1),
            Date(2024, 12, 31, 23, 59, 59, 0), NoTime),
     UserSub(UUID(3), "Netflix", 10, UUID(1), Date(2024, 3, 1, 0, 0, 0, 0),
             SomeTime(Date(2024, 4, 1, 0, 0, 0, 0))),
     UserSub(UUID(4), "Netflix", 1, UUID(1),
            Date(2024, 2, 29, 23, 59, 59, 0), NoTime),
     UserSub(UUID(5), "Spotify", 5000, UUID(1),
            Date(2025, 1, 15, 12, 0, 0, 0), NoTime),
     UserSub(UUID(6), "Netflix", 20000, UUID(2),
            Date(2025, 1, 15, 12, 0, 0, 0), NoTime)}

InitPeriod ==
    /\ rows = PeriodRows
    /\ nextId = Cardinality(PeriodRows) + 1
    /\ last = Idle
    /\ query \in PeriodQueries
    /\ inflight = NoRequests

\* a caller of the orchestrator passes the uuid it has, uuid.Nil if it has none
PeriodUC ==
    UCGetTotalCost(ParseUUID(query.userID).id, query.serviceName, query.from,
                   query.to, query.dbOk)

PeriodHTTP ==
    HGetTotalCost(query.userID, query.serviceName, query.from, query.to, query.dbOk)

NextPeriod ==
    \/ PeriodUC
    \/ PeriodHTTP
    \/ Reply

SpecPeriod == InitPeriod /\ [][NextPeriod]_vars

-----------------------------------------------------------------------------
(* Concurrent requests: the server runs every request in a goroutine of its *)
(* own; the UseCase has no field a request writes, so the requests meet in  *)
(* the table only.  Each request is a call of the orchestrator: it          *)
(* validates, then runs its one statement, in autocommit, at PostgreSQL's   *)
(* default level READ COMMITTED: an INSERT adds its row in one step; an     *)
(* UPDATE or DELETE first finds the rows its WHERE matches, then locks each *)
(* and, on the version then current, checks the WHERE again and writes, a   *)
(* row deleted in between being skipped.                                    *)

\* the requests that run concurrently
NumSlots == 3

Slots == 1 .. NumSlots

\* the rows in the table when the requests arrive
ConcRows ==
    {UserSub(UUID(1), "Netflix", 990, UUID(1),
            Date(2025, 1, 15, 12, 0, 0, 123456000), NoTime),
     UserSub(UUID(2), "Netflix", 100, UUID(2),
            Date(2025, 1, 15, 12, 0, 0, 0), NoTime)}

\* the draw of gen_random_uuid() for the INSERT of request i, as the nextId
\* that INSERT finds
DrawnUUID(i) == Cardinality(ConcRows) + i

\* create, update and delete calls of user 1: on its own row 1, on row 2 of
\* user 2, with two updates that differ in every field, and with a store that
\* fails, before its statement ran or after it committed
ConcRequests ==
    {[op |-> "CreateSub", dbOk |-> TRUE, committed |-> TRUE,
      userSub |-> UserSub(UUID(9), "Netflix", -1, UUID(1),
                          Date(2025, 1, 15, 12, 0, 0, 123456789), NoTime)]}
    \cup {[op |-> "CreateSub", dbOk |-> o.dbOk, committed |-> o.committed,
           userSub |-> UserSub(UUID(9), "Netflix", 990, UUID(1),
                               Date(2025, 1, 15, 12, 0, 0, 123456789), NoTime)] :
         o \in WriteOutcomes}
    \cup {[op |-> "UpdateSub", dbOk |-> o.dbOk, committed |-> o.committed,
           userSub |-> UserSub(id, "Spotify", 0, UUID(1), BodyStartedAt,
                               SomeTime(Date(2026, 7, 1, 0, 0, 0, 0)))] :
         id \in SubIDs, o \in WriteOutcomes}
    \cup {[op |-> "UpdateSub", dbOk |-> TRUE, committed |-> TRUE,
           userSub |-> UserSub(id, "Netflix", price, UUID(1), BodyStartedAt, NoTime)] :
         id \in SubIDs, price \in {-1, 5}}
    \cup {[op |-> "DeleteSub", dbOk |-> o.dbOk, committed |-> o.committed, subID |-> id,
           userID |-> UUID(1)] :
         id \in SubIDs, o \in WriteOutcomes}

\* a request the orchestrator has been called with, nothing done yet
Arrived(req) == [req |-> req, pc |-> "called", found |-> {}, err |-> ErrNil]

\* the request of slot i moves to pc with the rows found and the error err
Moved(i, pc, found, err) ==
    inflight' = [inflight EXCEPT ![i] = [@ EXCEPT !.pc = pc, !.found = found,
                                                   !.err = err]]

\* the orchestrator validates the price of a create or update and returns
\* the error, or goes on to its store call
Validate(i) ==
    /\ inflight[i].pc = "called"
    /\ LET req == inflight[i].req
           err == IF req.op = "DeleteSub" THEN ErrNil
                  ELSE validatePrice(req.userSub.ServicePrice)
       IN  Moved(i, IF err = ErrNil THEN "statement" ELSE "returned", {}, err)
    /\ UNCHANGED <<rows, nextId, last, query>>

\* the INSERT of a create
Insert(i) ==
    /\ inflight[i].pc = "statement"
    /\ inflight[i].req.op = "CreateSub"
    /\ LET req == inflight[i].req
           r == Storage_CreateSub([rows |-> rows, nextId |-> DrawnUUID(i)],
                                  req.userSub, req.dbOk, req.committed)
       IN  /\ rows' = r.db.rows
           /\ Moved(i, "returned", {}, r.err)
    /\ UNCHANGED <<nextId, last, query>>

\* the rows the WHERE of the statement of req matches among R
Matching(R, req) ==
    IF req.op = "UpdateSub"
    THEN {r \in R : r.ID = req.userSub.ID /\ r.UserID = req.userSub.UserID}
    ELSE {r \in R : r.ID = req.subID /\ r.UserID = req.userID}

\* the statement of req run on the rows R
Executed(R, req) ==
    IF req.op = "UpdateSub"
    THEN Storage_UpdateSub([rows |-> R, nextId |-> nextId], req.userSub, req.dbOk,
                           req.committed)
    ELSE Storage_DeleteSub([rows |-> R, nextId |-> nextId], req.subID, req.userID,
                           req.dbOk, req.committed)

\* an UPDATE or DELETE finds the rows it is to write, or fails before it has
\* run
Scan(i) ==
    /\ inflight[i].pc = "statement"
    /\ inflight[i].req.op \in {"UpdateSub", "DeleteSub"}
    /\ LET req == inflight[i].req
       IN  IF req.dbOk \/ req.committed
           THEN Moved(i, "locking", Matching(rows, req), ErrNil)
           ELSE Moved(i, "returned", {}, Executed(rows, req).err)
    /\ UNCHANGED <<rows, nextId, last, query>>

\* mutant: the versions found by the scan are written back
Written_FromSnapshot(R, req, found) ==
    LET current == {r \in R : \E f \in found : f.ID = r.ID}
    IN  (R \ current) \cup Executed(found, req).db.rows

\* the table R after the statement of req has locked the rows it found and
\* written their current versions
Written(R, req, found) ==
    LET current == {r \in R : \E f \in found : f.ID = r.ID}
    IN  (R \ current) \cup Executed(current, req).db.rows

\* an UPDATE or DELETE locks and writes the rows it found, and commits; Exec
\* returns, with an error when the answer is lost
Write(i) ==
    /\ inflight[i].pc = "locking"
    /\ rows' = Written(rows, inflight[i].req, inflight[i].found)
    /\ Moved(i, "returned", {}, Executed(rows, inflight[i].req).err)
    /\ UNCHANGED <<nextId, last, query>>

InitConc ==
    /\ rows = ConcRows
    /\ nextId = Cardinality(ConcRows) + NumSlots + 1
    /\ last = Idle
    /\ query = NoQuery
    /\ inflight \in {[i \in Slots |-> Arrived(f[i])] : f \in [Slots -> ConcRequests]}

NextConc ==
    \/ \E i \in Slots : Validate(i)
    \/ \E i \in Slots : Insert(i)
    \/ \E i \in Slots : Scan(i)
    \/ \E i \in Slots : Write(i)

SpecConc == InitConc /\ [][NextConc]_vars

-----------------------------------------------------------------------------
(* What a state says about the request it has just served *)

\* the orchestrator method m was called while serving the last request
Called(m) == last.uc = <<m>>

\* the UserSub the caller of a create or update submitted
Submitted ==
    IF last.layer = "usecase" THEN last.req.userSub ELSE last.req.body.sub

\* the rows the last request inserted
Inserted == {r \in rows : \A b \in last.before : b.ID # r.ID}

-----------------------------------------------------------------------------
(* Claims *)

\* C1: a create or update whose servicePrice is negative returns the
\* validation error "price cannot be negative", the orchestrator makes no
\* store call, and the rows are the rows before the call.
C1_NegativePriceRejected ==
    ((Called("CreateSub") \/ Called("UpdateSub")) /\ Submitted.ServicePrice < 0)
        => /\ last.err = ErrNegativePrice
           /\ last.calls = <<>>
           /\ rows = last.before

\* C1 witness: an update with a negative price aimed at a stored row of the
\* caller was rejected.
C1_Witness ==
    /\ Called("UpdateSub")
    /\ last.layer = "usecase"
    /\ Submitted.ServicePrice < 0
    /\ \E r \in last.before :
          r.ID = Submitted.ID /\ r.UserID = Submitted.UserID /\ r.ServicePrice > 0
    /\ last.err = ErrNegativePrice

\* C2: every stored row has servicePrice >= 0.
C2_StoredPricesNonNegative == \A r \in rows : r.ServicePrice >= 0

\* C2 witness: a row of price 990 was updated to price 0 while another row
\* is stored.
C2_Witness ==
    /\ Called("UpdateSub")
    /\ last.err = ErrNil
    /\ \E b \in last.before, r \in rows :
          b.ID = r.ID /\ b.ServicePrice = 990 /\ r.ServicePrice = 0
    /\ Cardinality(rows) = 2

\* the month and year a well-formed period string names
PeriodOf(s) ==
    CHOOSE p \in (1 .. 12) \X PeriodYears : MonthYear(p[1], p[2]) = s

\* the first instant of the month s names, from the calendar
FirstInstant(s) == Date(PeriodOf(s)[2], PeriodOf(s)[1], 1, 0, 0, 0, 0)

\* the last second of the month s names, from the length of the month
LastSecond(s) ==
    Date(PeriodOf(s)[2], PeriodOf(s)[1], DaysIn(PeriodOf(s)[2], PeriodOf(s)[1]),
         23, 59, 59, 0)

\* C3: for well-formed from and to, GetTotalCost calls the store's aggregate
\* once, with the first instant of the from month and the last second of the
\* to month (the first instant of the next month minus one second), for
\* every month length and across December; 01-2025..01-2025 is
\* [2025-01-01T00:00:00, 2025-01-31T23:59:59] and 01-2025..03-2025 ends at
\* 2025-03-31T23:59:59.
C3_PeriodNormalized ==
    (Called("GetTotalCost")
       /\ last.req.from \in WellFormedPeriods /\ last.req.to \in WellFormedPeriods)
        => /\ Len(last.calls) = 1
           /\ last.calls[1].fn = "GetTotalCost"
           /\ last.calls[1].from = FirstInstant(last.req.from)
           /\ last.calls[1].to = LastSecond(last.req.to)
           /\ last.calls[1].serviceName = last.req.serviceName
           /\ (last.req.from = MonthYear(1, 2025)
                 => last.calls[1].from = [sec |-> 1735689600, nsec |-> 0])
           /\ (last.req.to = MonthYear(1, 2025)
                 => last.calls[1].to = [sec |-> 1738367999, nsec |-> 0])
           /\ (last.req.to = MonthYear(3, 2025)
                 => last.calls[1].to = [sec |-> 1743465599, nsec |-> 0])
           /\ (last.req.to = MonthYear(12, 2024)
                 => last.calls[1].to = [sec |-> 1735689599, nsec |-> 0])
           /\ (last.req.to = MonthYear(2, 2024)
                 => last.calls[1].to = [sec |-> 1709251199, nsec |-> 0])

\* C3 witness: the orchestrator served a period ending in December 2024 and
\* called the store with 2024-12-31T23:59:59 as the upper bound.
C3_Witness ==
    /\ Called("GetTotalCost")
    /\ last.layer = "usecase"
    /\ last.req.from = MonthYear(2, 2024)
    /\ last.req.to = MonthYear(12, 2024)
    /\ Len(last.calls) = 1
    /\ last.calls[1].to = Date(2024, 12, 31, 23, 59, 59, 0)

\* C4 as claimed: the orchestrator's GetTotalCost fails, without a store
\* call, when from or to does not parse as MM-YYYY or when any of userId,
\* serviceName, from, to is empty.
C4_Original ==
    (last.op = "GetTotalCost" /\ last.layer = "usecase"
       /\ (\/ last.req.from \in MalformedPeriods
           \/ last.req.to \in MalformedPeriods
           \/ last.req.serviceName = ""
           \/ last.req.userID = NilUUID))
        => last.err # ErrNil /\ last.calls = <<>>

\* C4 amended: the orchestrator's GetTotalCost fails with the parse error,
\* value 0 and no store call, when from or to does not parse as MM-YYYY (the
\* empty string included); an empty user_id, service_name, from or to is
\* rejected by the HTTP handler, which answers 400 without calling the
\* orchestrator.
C4_MalformedPeriodRejected ==
    /\ (Called("GetTotalCost")
          /\ (last.req.from \in MalformedPeriods \/ last.req.to \in MalformedPeriods))
         => /\ last.err = ErrParse
            /\ last.calls = <<>>
            /\ last.layer = "usecase" => last.val = 0
    /\ (last.op = "GetTotalCost" /\ last.layer = "http"
          /\ (\/ last.req.userID = <<>> \/ last.req.serviceName = ""
              \/ last.req.from = <<>> \/ last.req.to = <<>>))
         => last.status = 400 /\ last.uc = <<>> /\ last.calls = <<>>
    /\ last.op = "GetTotalCost" => rows = last.before

\* C4 witness: the orchestrator was given "2025-01" as from, with the other
\* parameters in order, and returned the parse error.
C4_Witness ==
    /\ Called("GetTotalCost")
    /\ last.layer = "usecase"
    /\ last.req.from = <<"2", "0", "2", "5", "-", "0", "1">>
    /\ last.req.to = MonthYear(1, 2025)
    /\ last.req.serviceName = "Netflix"
    /\ last.req.userID = UUID(1)
    /\ last.err = ErrParse

\* the user and service of the last GetTotalCost the orchestrator served
TotalUser ==
    IF last.layer = "usecase" THEN last.req.userID ELSE ParseUUID(last.req.userID).id

\* year and month as one number
MonthIndex(year, month) == year * 12 + month

\* the stored rows of the queried user and service started in the months
\* from .. to
StartedInMonths ==
    {r \in rows :
        /\ r.UserID = TotalUser
        /\ r.ServiceName = last.req.serviceName
        /\ MonthIndex(PeriodOf(last.req.from)[2], PeriodOf(last.req.from)[1])
              <= MonthIndex(Civil(r.StartedAt).year, Civil(r.StartedAt).month)
        /\ MonthIndex(Civil(r.StartedAt).year, Civil(r.StartedAt).month)
              <= MonthIndex(PeriodOf(last.req.to)[2], PeriodOf(last.req.to)[1])}

\* the stored rows of the queried user and service started in the closed
\* interval from the first instant of from to the last second of to
StartedInInterval ==
    {r \in rows :
        /\ r.UserID = TotalUser
        /\ r.ServiceName = last.req.serviceName
        /\ TimeLE(FirstInstant(last.req.from), r.StartedAt)
        /\ TimeLE(r.StartedAt, LastSecond(last.req.to))}

\* C5: GetTotalCost returns the sum of servicePrice over the stored rows of
\* exactly that user and service started in the closed normalized interval,
\* and so the price of every such row created in a month the range covers:
\* a subscription of price 990 queried over a range covering its creation
\* month gives 990, whatever other services the user has.
C5_TotalCoversCreationMonth ==
    (Called("GetTotalCost") /\ last.err = ErrNil)
        => /\ last.val = SumPrice(StartedInInterval)
           /\ last.val = SumPrice(StartedInMonths)

\* C6: with well-formed parameters and the store answering, GetTotalCost
\* returns 0 and no error when no stored row of the user and service started
\* in the period, and always when from is a later month than to.
C6_NoMatchIsZero ==
    (Called("GetTotalCost") /\ last.req.dbOk
       /\ last.req.from \in WellFormedPeriods /\ last.req.to \in WellFormedPeriods)
        => /\ last.err = ErrNil
           /\ last.layer = "http" => last.status = 200
           /\ StartedInInterval = {} => last.val = 0
           /\ MonthIndex(PeriodOf(last.req.from)[2], PeriodOf(last.req.from)[1])
                 > MonthIndex(PeriodOf(last.req.to)[2], PeriodOf(last.req.to)[1])
                => last.val = 0

\* C6 witness: user 1's Netflix total from 01-2025 to 12-2024, a range that
\* begins after it ends with rows of that user and service started in both
\* months, was served as 0 without error.
C6_Witness ==
    /\ Called("GetTotalCost")
    /\ last.layer = "usecase"
    /\ last.req.dbOk
    /\ last.req.from = MonthYear(1, 2025)
    /\ last.req.to = MonthYear(12, 2024)
    /\ last.req.userID = UUID(1)
    /\ last.req.serviceName = "Netflix"
    /\ \E r \in rows : r.UserID = UUID(1) /\ r.ServiceName = "Netflix"
                       /\ Civil(r.StartedAt).year = 2025
    /\ \E r \in rows : r.UserID = UUID(1) /\ r.ServiceName = "Netflix"
                       /\ Civil(r.StartedAt).year = 2024 /\ Civil(r.StartedAt).month = 12
    /\ last.err = ErrNil
    /\ last.val = 0

\* C7: after a successful create, get-by-id of the created row returns the
\* submitted serviceName, servicePrice, userId and endedAt, with the id and
\* the startedAt that create assigned.
C7_CreateThenGet ==
    (Called("CreateSub") /\ last.err = ErrNil)
        => /\ Inserted # {}
           /\ \A new \in Inserted :
                 LET got == UC_GetUserSub(DB, new.ID, TRUE)
                 IN  /\ got.err = ErrNil
                     /\ got.val = {UserSub(new.ID, Submitted.ServiceName,
                                           Submitted.ServicePrice, Submitted.UserID,
                                           new.StartedAt, Submitted.EndedAt)}

\* the id and user id the orchestrator's DeleteSub was given
DeleteArgs ==
    IF last.layer = "usecase"
    THEN [subID |-> last.req.subID, userID |-> last.req.userID]
    ELSE [subID |-> ParseUUID(last.req.id).id, userID |-> ParseUUID(last.req.userID).id]

\* C8: delete removes exactly the rows matching both the id and the user id,
\* and reports success whenever Exec returned no error, also when the
\* statement matched no row: with a user id that is not the owner's, every
\* row stays as it was.
C8_DeleteScoped ==
    Called("DeleteSub")
        => LET hit == {b \in last.before :
                          b.ID = DeleteArgs.subID /\ b.UserID = DeleteArgs.userID}
           IN  /\ rows \subseteq last.before
               /\ \A b \in last.before \ hit : b \in rows
               /\ last.req.dbOk => last.err = ErrNil /\ rows = last.before \ hit
               /\ rows = IF last.req.committed THEN last.before \ hit ELSE last.before
               /\ hit = {} => rows = last.before

\* C8 witness: a delete naming a stored row and a user who does not own it
\* succeeded and left both stored rows.
C8_Witness ==
    /\ Called("DeleteSub")
    /\ \E b \in last.before :
          b.ID = DeleteArgs.subID /\ b.UserID # DeleteArgs.userID
    /\ last.err = ErrNil
    /\ rows = last.before
    /\ Cardinality(rows) = 2

\* the UserSub the orchestrator's UpdateSub was given
UpdateArg ==
    IF last.layer = "usecase" THEN last.req.userSub
    ELSE [last.req.body.sub EXCEPT !.ID = ParseUUID(last.req.id).id]

\* C9: no request changes the id, userId or startedAt of a stored row; an
\* update adds and removes no row, leaves every row not matching both its id
\* and userId as it was, sets serviceName, servicePrice and endedAt of the
\* matching row, and when it matches no row changes nothing and succeeds.
C9_UpdateFrame ==
    /\ \A b \in last.before, r \in rows :
          b.ID = r.ID => r.UserID = b.UserID /\ r.StartedAt = b.StartedAt
    /\ Called("UpdateSub")
         => LET hit == {b \in last.before :
                           b.ID = UpdateArg.ID /\ b.UserID = UpdateArg.UserID}
            IN  /\ {r.ID : r \in rows} = {b.ID : b \in last.before}
                /\ Cardinality(rows) = Cardinality(last.before)
                /\ \A b \in last.before \ hit : b \in rows
                /\ last.calls = <<>> => rows = last.before
                /\ (last.calls # <<>> /\ ~last.req.committed) => rows = last.before
                /\ (last.err = ErrNil \/ (last.calls # <<>> /\ last.req.committed)) =>
                      \A b \in hit :
                          [b EXCEPT !.ServiceName = UpdateArg.ServiceName,
                                    !.ServicePrice = UpdateArg.ServicePrice,
                                    !.EndedAt = UpdateArg.EndedAt] \in rows
                /\ hit = {} =>
                      /\ rows = last.before
                      /\ (UpdateArg.ServicePrice >= 0 /\ last.req.dbOk)
                            => last.err = ErrNil

\* C9 witness: an update changed the serviceName, servicePrice and endedAt of
\* one of two stored rows.
C9_Witness ==
    /\ Called("UpdateSub")
    /\ last.err = ErrNil
    /\ Cardinality(rows) = 2
    /\ \E b \in last.before, r \in rows :
          /\ b.ID = r.ID
          /\ b.ServiceName # r.ServiceName
          /\ b.ServicePrice # r.ServicePrice
          /\ b.EndedAt # r.EndedAt

\* C10 as claimed: on a successful create the persisted startedAt is never
\* the startedAt the orchestrator's caller supplied, and the persisted id is
\* never the id the caller supplied.
C10_Original ==
    (Called("CreateSub") /\ last.layer = "usecase" /\ last.err = ErrNil)
        => \A new \in Inserted :
              /\ new.StartedAt # Timestamp(last.req.userSub.StartedAt)
              /\ new.ID # last.req.userSub.ID

\* C10 amended: on a create with servicePrice >= 0 the orchestrator hands the
\* startedAt it was given to the store unchanged; it is the HTTP handler that
\* replaces the startedAt of the request body by its reading of the clock
\* before it calls the orchestrator, so the startedAt persisted for an HTTP
\* request is that reading (at the store's microsecond resolution) and never
\* the body's value.  The insert leaves the id to the store, so a
\* caller-supplied id is never persisted.
C10_StartedAtSetByHandler ==
    (Called("CreateSub") /\ last.err = ErrNil)
        => /\ Cardinality(Inserted) = 1
           /\ rows = last.before \cup Inserted
           /\ \A new \in Inserted :
                 /\ new.ID # Submitted.ID
                 /\ new.ID = UUID(nextId - 1)
                 /\ last.layer = "usecase" =>
                       /\ last.calls[1].userSub.StartedAt = last.req.userSub.StartedAt
                       /\ new.StartedAt = Timestamp(last.req.userSub.StartedAt)
                 /\ last.layer = "http" =>
                       /\ last.calls[1].userSub.StartedAt = last.req.now
                       /\ new.StartedAt = Timestamp(last.req.now)
                       /\ new.StartedAt # Timestamp(last.req.body.sub.StartedAt)

\* C10 witness: an HTTP create whose body carried an id and a startedAt was
\* stored with the handler's clock reading, cut to microseconds.
C10_Witness ==
    /\ Called("CreateSub")
    /\ last.layer = "http"
    /\ last.err = ErrNil
    /\ last.status = 201
    /\ last.req.now.nsec = 123456789
    /\ \E new \in Inserted : new.StartedAt.nsec = 123456000 /\ new.ID # last.req.body.sub.ID

\* the user id the orchestrator's GetUserSubs was given
ListUser ==
    IF last.layer = "usecase" THEN last.req.userID ELSE ParseUUID(last.req.userID).id

\* the records of a returned list
Listed == {last.val[i] : i \in DOMAIN last.val}

\* C11: a successful list-by-user returns exactly the stored rows whose
\* userId is the argument, a successful list-all returns every stored row,
\* one record per row; the orchestrator returns what the store returned, and
\* a listing changes no row.
C11_ListsReturnStoredRows ==
    /\ (Called("GetUserSubs") /\ last.err = ErrNil)
         => /\ Listed = {r \in rows : r.UserID = ListUser}
            /\ Len(last.val) = Cardinality({r \in rows : r.UserID = ListUser})
            /\ last.val = Storage_GetUserSubs(DB, ListUser, last.req.heap,
                                              last.req.dbOk).val
    /\ (Called("GetSubs") /\ last.err = ErrNil)
         => /\ Listed = rows
            /\ Len(last.val) = Cardinality(rows)
            /\ last.val = Storage_GetSubs(DB, last.req.heap, last.req.dbOk).val
    /\ (Called("GetUserSubs") \/ Called("GetSubs")) => rows = last.before

\* the id the orchestrator's GetUserSub was given
GetArg ==
    IF last.layer = "usecase" THEN last.req.subID ELSE ParseUUID(last.req.id).id

\* C12: the orchestrator's get-by-id of an id no row has returns no record
\* and an error that wraps pgx.ErrNoRows, which the error of a failed
\* statement never does: the caller can tell "no such subscription" from
\* "store failed" by errors.Is.
C12_NotFoundDistinct ==
    Called("GetUserSub")
        => LET hit == {b \in rows : b.ID = GetArg}
           IN  /\ (last.req.dbOk /\ hit = {})
                     => /\ last.err = ErrNoRows("storage.storage.GetUserSub")
                        /\ last.layer = "usecase" => last.val = {}
               /\ ~last.req.dbOk
                     => /\ last.err = ErrExec("storage.storage.GetUserSub")
                        /\ last.layer = "usecase" => last.val = {}
               /\ (last.err.kind = "pgx.ErrNoRows") <=> (last.req.dbOk /\ hit = {})
               /\ (last.err = ErrNil) <=> (last.req.dbOk /\ hit # {})

\* C12 witness: with a row stored, the orchestrator was asked for an id no
\* row has and returned the error wrapping pgx.ErrNoRows.
C12_Witness ==
    /\ Called("GetUserSub")
    /\ last.layer = "usecase"
    /\ last.req.dbOk
    /\ rows # {}
    /\ \A b \in rows : b.ID # last.req.subID
    /\ last.err.kind = "pgx.ErrNoRows"
    /\ last.val = {}

\* the errors of the orchestrator that are validation failures or not-found
ClientFaults == {"price cannot be negative", "time.ParseError", "pgx.ErrNoRows"}

\* C13: an HTTP request that fails validation (negative price, malformed or
\* missing period parameters, malformed identifier or body) or finds no
\* record is answered with a 4xx status, a request whose store statement
\* failed with 500, and a 5xx status is given to store failures only.
C13_StatusFollowsFailureKind ==
    (last.layer = "http")
        => /\ last.uc = <<>> => last.status \in 400 .. 499
           /\ last.err.kind \in ClientFaults => last.status \in 400 .. 499
           /\ last.err.kind = "db" => last.status = 500
           /\ last.status >= 500 => last.err.kind = "db"

\* the last call of the orchestrator fails its validation: a negative price
\* on create or update, a period string that does not parse
FailsValidation ==
    \/ Called("CreateSub") /\ Submitted.ServicePrice < 0
    \/ Called("UpdateSub") /\ UpdateArg.ServicePrice < 0
    \/ Called("GetTotalCost")
         /\ (~ParseMonthYear(last.req.from).ok \/ ~ParseMonthYear(last.req.to).ok)

\* the op the store puts in front of the error of a failed statement
StoreOp ==
    [CreateSub |-> "storage.storage.CreateSub",
     UpdateSub |-> "storage.storage.UpdateSub",
     DeleteSub |-> "storage.storage.DeleteSub",
     GetSubs |-> "storage.storage.GetSubs",
     GetUserSubs |-> "storage.storage.GetSubs",
     GetUserSub |-> "storage.storage.GetUserSub",
     GetTotalCost |-> "storage.storage.GetTotalCost"]

\* what an orchestrator method returns beside an error
ZeroValue ==
    [CreateSub |-> <<>>, UpdateSub |-> <<>>, DeleteSub |-> <<>>, GetSubs |-> <<>>,
     GetUserSubs |-> <<>>, GetUserSub |-> {}, GetTotalCost |-> 0]

\* the orchestrator methods whose statement writes
Writes == {"CreateSub", "UpdateSub", "DeleteSub"}

\* the one statement of the last call of the orchestrator took effect, in
\* full, on the rows as they were: the INSERT added one row with the values
\* given, the UPDATE set the three fields of every row matching id and user
\* id, the DELETE removed every such row; nothing else changed
StatementTookEffect ==
    LET call == last.calls[1]
    IN  CASE call.fn = "CreateSub" ->
               /\ last.before \subseteq rows
               /\ Cardinality(Inserted) = 1
               /\ rows = last.before \cup Inserted
               /\ \A r \in Inserted :
                     /\ r.ServiceName = call.userSub.ServiceName
                     /\ r.ServicePrice = call.userSub.ServicePrice
                     /\ r.UserID = call.userSub.UserID
                     /\ r.EndedAt = {Timestamp(t) : t \in call.userSub.EndedAt}
          [] call.fn = "UpdateSub" ->
               rows = {IF b.ID = call.userSub.ID /\ b.UserID = call.userSub.UserID
                       THEN [b EXCEPT !.ServiceName = call.userSub.ServiceName,
                                      !.ServicePrice = call.userSub.ServicePrice,
                                      !.EndedAt = call.userSub.EndedAt]
                       ELSE b : b \in last.before}
          [] call.fn = "DeleteSub" ->
               rows = {b \in last.before :
                          ~(b.ID = call.subID /\ b.UserID = call.userID)}

\* C14 as stated: an orchestrator method makes no store call when its
\* validation fails and exactly one otherwise, of the store method of its own
\* name; when that call fails the orchestrator returns the store's error with
\* the zero value, and whenever it returns an error the rows are as they
\* were.
C14_Original ==
    (last.uc # <<>>)
        => /\ Len(last.uc) = 1
           /\ Len(last.calls) = IF FailsValidation THEN 0 ELSE 1
           /\ \A i \in DOMAIN last.calls : last.calls[i].fn = last.uc[1]
           /\ (last.calls # <<>> /\ ~last.req.dbOk)
                 => /\ last.err = ErrExec(StoreOp[last.uc[1]])
                    /\ last.layer = "usecase" => last.val = ZeroValue[last.uc[1]]
           /\ last.err # ErrNil => rows = last.before

\* C14: an orchestrator method makes no store call when its validation fails
\* and exactly one otherwise, of the store method of its own name, and none
\* after a failure; when that call fails the orchestrator returns the store's
\* error with the zero value.  The rows are as they were when validation
\* failed, when a read failed, and when a write failed before its statement
\* took effect; when a write failed after its statement committed, the rows
\* are those that one statement leaves, in full, and the error is returned
\* all the same.
C14_OneStoreCall ==
    (last.uc # <<>>)
        => /\ Len(last.uc) = 1
           /\ Len(last.calls) = IF FailsValidation THEN 0 ELSE 1
           /\ \A i \in DOMAIN last.calls : last.calls[i].fn = last.uc[1]
           /\ (last.calls # <<>> /\ ~last.req.dbOk)
                 => /\ last.err = ErrExec(StoreOp[last.uc[1]])
                    /\ last.layer = "usecase" => last.val = ZeroValue[last.uc[1]]
           /\ FailsValidation => last.err # ErrNil /\ rows = last.before
           /\ (last.calls # <<>> /\ last.err # ErrNil)
                 => IF last.uc[1] \in Writes /\ last.req.committed
                    THEN StatementTookEffect
                    ELSE rows = last.before

\* C14 witness: the orchestrator's delete of a stored row by its owner made
\* its one store call, whose statement committed while Exec returned an
\* error; the error came back and the row is gone.
C14_Witness ==
    /\ Called("DeleteSub")
    /\ last.layer = "usecase"
    /\ ~last.req.dbOk
    /\ last.req.committed
    /\ \E b \in last.before :
          b.ID = last.req.subID /\ b.UserID = last.req.userID /\ b \notin rows
    /\ Len(last.calls) = 1
    /\ last.err = ErrExec("storage.storage.DeleteSub")

\* the rows S with every endedAt replaced by ended
WithEndedAt(S, ended) == {[r EXCEPT !.EndedAt = ended] : r \in S}

\* the total the orchestrator gives for a query over the rows S
TotalOver(S, userID, serviceName, from, to) ==
    UC_GetTotalCost([rows |-> S, nextId |-> nextId], userID, serviceName,
                    from, to, TRUE).val

\* an update changed nothing but endedAt
OnlyEndedAtChanged ==
    /\ Called("UpdateSub")
    /\ last.err = ErrNil
    /\ rows # last.before
    /\ WithEndedAt(rows, NoTime) = WithEndedAt(last.before, NoTime)

\* C16: a total is the sum of servicePrice, each counted once, over the rows
\* of the user and service whose startedAt is in the period, whatever their
\* endedAt and however many months the period has: the same total comes out
\* with every endedAt absent or long past, a row started before the period
\* adds nothing, and an update that changes only endedAt changes no total.
C16_TotalIgnoresEndedAt ==
    /\ (Called("GetTotalCost") /\ last.err = ErrNil)
         => /\ last.val = SumPrice(StartedInInterval)
            /\ \A ended \in {NoTime, SomeTime(Date(1971, 1, 1, 0, 0, 0, 0))} :
                  last.val = TotalOver(WithEndedAt(rows, ended), TotalUser,
                                       last.req.serviceName, last.req.from,
                                       last.req.to)
            /\ (\A r \in rows : ~TimeLE(FirstInstant(last.req.from), r.StartedAt))
                  => last.val = 0
    /\ OnlyEndedAtChanged
         => \A userID \in Users, serviceName \in Services, from \in Periods,
               to \in Periods :
                 TotalOver(rows, userID, serviceName, from, to)
                   = TotalOver(last.before, userID, serviceName, from, to)

\* C16 witness: the total of February 2025 was 0 although the user's
\* subscription to the service, started in January 2025 at a price above 0,
\* runs until July 2026.
C16_Witness ==
    /\ Called("GetTotalCost")
    /\ last.err = ErrNil
    /\ last.req.from = MonthYear(2, 2025)
    /\ last.req.to = MonthYear(2, 2025)
    /\ \E r \in rows :
          /\ r.UserID = TotalUser
          /\ r.ServiceName = last.req.serviceName
          /\ r.ServicePrice > 0
          /\ Civil(r.StartedAt).month = 1
          /\ r.EndedAt = SomeTime(Date(2026, 7, 1, 0, 0, 0, 0))
    /\ last.val = 0

\* the rows after the orchestrator has served the request of slot i alone on
\* the rows R
Served(R, i) ==
    LET req == inflight[i].req
    IN  CASE req.op = "CreateSub" ->
               UC_CreateSub([rows |-> R, nextId |-> DrawnUUID(i)], req.userSub,
                            req.dbOk, req.committed).db.rows
          [] req.op = "UpdateSub" ->
               UC_UpdateSub([rows |-> R, nextId |-> nextId], req.userSub,
                            req.dbOk, req.committed).db.rows
          [] req.op = "DeleteSub" ->
               UC_DeleteSub([rows |-> R, nextId |-> nextId], req.subID, req.userID,
                            req.dbOk, req.committed).db.rows

RECURSIVE ServedInOrder(_, _)
\* the rows after the requests of the slots of order, one after another
ServedInOrder(R, order) ==
    IF order = <<>> THEN R
    ELSE ServedInOrder(Served(R, Head(order)), Tail(order))

\* the orders of the slots
SlotOrders == {f \in [Slots -> Slots] : \A i, j \in Slots : i # j => f[i] # f[j]}

\* the tables the requests leave when run one after another
SerialOutcomes == {ServedInOrder(ConcRows, f) : f \in SlotOrders}

\* the record the request of slot i is about
Record(i) ==
    LET req == inflight[i].req
    IN  CASE req.op = "CreateSub" -> UUID(DrawnUUID(i))
          [] req.op = "UpdateSub" -> req.userSub.ID
          [] req.op = "DeleteSub" -> req.subID

AllReturned == \A i \in Slots : inflight[i].pc = "returned"

\* C15: when concurrently running create, update and delete requests have
\* all returned, the table is one that the same requests leave when run one
\* after another in some order; when no two of them are about the same
\* record, every order leaves that same table; and a row of the table is
\* gone, or as it was, or holds the serviceName, servicePrice and endedAt of
\* one single update.
C15_Serializable ==
    (inflight # NoRequests /\ AllReturned)
        => /\ rows \in SerialOutcomes
           /\ (\A i, j \in Slots : i # j => Record(i) # Record(j))
                 => SerialOutcomes = {rows}
           /\ \A b \in ConcRows :
                 \/ \A r \in rows : r.ID # b.ID
                 \/ b \in rows
                 \/ \E i \in Slots :
                       /\ inflight[i].req.op = "UpdateSub"
                       /\ [b EXCEPT !.ServiceName = inflight[i].req.userSub.ServiceName,
                                    !.ServicePrice = inflight[i].req.userSub.ServicePrice,
                                    !.EndedAt = inflight[i].req.userSub.EndedAt] \in rows

\* C15 witness: two updates of row 1 that differ in every field and a delete
\* of row 1 ran concurrently, all returned without error, and the row is gone.
C15_Witness ==
    /\ inflight # NoRequests
    /\ AllReturned
    /\ inflight[1].req.op = "UpdateSub"
    /\ inflight[2].req.op = "UpdateSub"
    /\ inflight[3].req.op = "DeleteSub"
    /\ inflight[1].req.userSub.ID = UUID(1)
    /\ inflight[2].req.userSub.ID = UUID(1)
    /\ inflight[3].req.subID = UUID(1)
    /\ inflight[1].req.userSub.ServiceName # inflight[2].req.userSub.ServiceName
    /\ \A i \in Slots : inflight[i].err = ErrNil
    /\ \A r \in rows : r.ID # UUID(1)

=============================================================================
